---- MODULE Spec2Model ----
(***************************************************************************)
(* The workflow gate state machine that the cd-agent orchestrator evals    *)
(* exercise: phases idle -> plan -> tdd -> review -> commit -> ship,       *)
(* approval gates, the TDD red/green/refactor sub-machine, spike mode and  *)
(* the transition history.  The golden dataset scenarios (S1..S13) are     *)
(* transcribed from evals/fixtures/orchestrator_golden_dataset.py; the     *)
(* decision logic itself is not part of the Python sources and is          *)
(* transcribed from the operation contracts of the specification           *)
(* (sections 3, 4 and 7).                                                  *)
(***************************************************************************)
EXTENDS Naturals, Sequences, FiniteSets, TLC

\* ------------------------------------------------------------------ bounds

\* Longest history the model explores; every command is disabled beyond it.
MaxHistory == 8

\* ------------------------------------------------------------- vocabulary

Phases == {"idle", "plan", "tdd", "review", "commit", "ship"}

GateNames == {"plan_approved", "review_approved"}

ProjectTypes == {"backend", "fullstack"}

Features == {"Feature A", "Feature B"}

\* Commands that route to a phase action (section 4.2).
PhaseCommands ==
  {"plan", "red", "green", "refactor", "code-review", "commit", "ship",
   "acceptance-test", "dsl"}

\* Commands that belong to the tdd phase and advance plan -> tdd.
TddCommands == {"acceptance-test", "dsl", "red", "green", "refactor"}

\* The command surface of section 6, plus the two answers to a confirmation
\* request and a free text that matches no trigger phrase.
CommandNames ==
  PhaseCommands \cup {"cd-init", "spike", "approved", "confirm", "decline", "ambiguous"}

ErrorKinds ==
  {"NotInitializedError", "GateNotPassedError", "NoFailingTestError",
   "NoPendingGateError", "MissingPrerequisiteError", "InvalidTransitionError",
   "AmbiguousIntentError"}

\* ------------------------------------------------------------- data model

NoProject == [type |-> "none", initialized_at |-> 0]

AbsentGate == [status |-> "absent", approver |-> "none", timestamp |-> 0]

PendingGate == [status |-> "pending", approver |-> "none", timestamp |-> 0]

PassedGate(approver, now) == [status |-> "passed", approver |-> approver, timestamp |-> now]

NoGates == [g \in GateNames |-> AbsentGate]

NoTdd == [mode |-> "none", test_status |-> "none"]

\* TransitionRecord{from_phase, to_phase, command, timestamp, gate_checked?}
TransitionRecord(from, to, command, now, gate) ==
  [from_phase |-> from, to_phase |-> to, command |-> command,
   timestamp |-> now, gate_checked |-> gate]

\* The WorkflowState aggregate.  exists = FALSE is the absent document; the
\* spike flag is the only field that has a value while the document is absent.
WorkflowState(spike) ==
  [exists |-> FALSE, current_phase |-> "null", project |-> NoProject,
   current_feature |-> "none", gates |-> NoGates, tdd_state |-> NoTdd,
   spike_mode |-> spike, history |-> << >>]

\* ---------------------------------------------------------------- results

\* {allowed, new_state, blocked_reason, suggested_next}; new_state is the
\* state component of the outcome.  gate names the gate of a
\* GateNotPassedError or of a passed approval.
Allowed(s) ==
  [state |-> s,
   result |-> [allowed |-> TRUE, blocked_reason |-> "none", suggested_next |-> "none",
               gate |-> "none", requires_confirmation |-> FALSE]]

AllowedGate(s, g) ==
  [state |-> s,
   result |-> [allowed |-> TRUE, blocked_reason |-> "none", suggested_next |-> "none",
               gate |-> g, requires_confirmation |-> FALSE]]

Blocked(s, reason, g, next) ==
  [state |-> s,
   result |-> [allowed |-> FALSE, blocked_reason |-> reason, suggested_next |-> next,
               gate |-> g, requires_confirmation |-> FALSE]]

NeedsConfirmation(s) ==
  [state |-> s,
   result |-> [allowed |-> FALSE, blocked_reason |-> "none", suggested_next |-> "confirm",
               gate |-> "none", requires_confirmation |-> TRUE]]

\* ---------------------------------------------------------- gate registry

Passed(s, g) == s.gates[g].status = "passed"

Pending(s, g) == s.gates[g].status = "pending"

\* request(gate_name): marks an absent gate pending, state unchanged otherwise.
RequestGate(s, g) ==
  IF s.gates[g].status = "absent"
  THEN [s EXCEPT !.gates[g] = PendingGate]
  ELSE s

\* The next step of the workflow from state s, named in a blocked result.
NextStep(s) ==
  CASE s.current_phase \in {"idle", "ship"} -> "plan"
    [] s.current_phase = "plan" ->
         IF Passed(s, "plan_approved") THEN "red"
         ELSE IF Pending(s, "plan_approved") THEN "approved" ELSE "plan"
    [] s.current_phase = "tdd" -> "code-review"
    [] s.current_phase = "review" ->
         IF Passed(s, "review_approved") THEN "commit" ELSE "approved"
    [] OTHER -> "ship"

\* An approval that also moves the phase on.
Approve_advances(s, approver, now) ==
  LET pending == {g \in GateNames : Pending(s, g)} IN
  IF pending = {}
  THEN Blocked(s, "NoPendingGateError", "none", NextStep(s))
  ELSE LET g == CHOOSE x \in pending : TRUE IN
       AllowedGate(
         [s EXCEPT !.gates[g] = PassedGate(approver, now),
                   !.current_phase = IF g = "plan_approved" THEN "tdd" ELSE "commit",
                   !.history = Append(@, TransitionRecord(s.current_phase, s.current_phase,
                                                          "approved", now, g))],
         g)

\* approve(gate_name, approver) for the free-text "approved": passes the
\* pending gate, records approver and timestamp and one history record;
\* current_phase is not touched.
Approve(s, approver, now) ==
  LET pending == {g \in GateNames : Pending(s, g)} IN
  IF pending = {}
  THEN Blocked(s, "NoPendingGateError", "none", NextStep(s))
  ELSE LET g == CHOOSE x \in pending : TRUE IN
       AllowedGate(
         [s EXCEPT !.gates[g] = PassedGate(approver, now),
                   !.history = Append(@, TransitionRecord(s.current_phase, s.current_phase,
                                                          "approved", now, g))],
         g)

\* ----------------------------------------------------------- initialization

\* An initialization that rewrites project on an existing document.
Initialize_overwrites(s, project_type, now) ==
  IF s.exists
  THEN Allowed([s EXCEPT !.project = [type |-> project_type, initialized_at |-> now]])
  ELSE Allowed([s EXCEPT !.exists = TRUE,
                         !.current_phase = "idle",
                         !.project = [type |-> project_type, initialized_at |-> now],
                         !.history = << TransitionRecord("null", "idle", "cd-init", now, "null") >>])

\* initialize: always permitted.  On an absent document it creates the state
\* (project, current_phase = idle) and the ledger records the transition; on
\* an existing document project is immutable and nothing is changed.
Initialize(s, project_type, now) ==
  IF s.exists
  THEN Allowed(s)
  ELSE Allowed([s EXCEPT !.exists = TRUE,
                         !.current_phase = "idle",
                         !.project = [type |-> project_type, initialized_at |-> now],
                         !.history = << TransitionRecord("null", "idle", "cd-init", now, "null") >>])

\* spike: always permitted; toggles spike_mode and touches nothing else.
Spike(s) == Allowed([s EXCEPT !.spike_mode = ~ @])

\* ------------------------------------------------------ phase state machine

\* Start of a feature cycle: phase plan, the feature named, the gates and the
\* TDD sub-state of the previous cycle dropped, the history kept.
StartFeature(s, feature, now) ==
  [s EXCEPT !.current_phase = "plan",
            !.current_feature = feature,
            !.gates = NoGates,
            !.tdd_state = NoTdd,
            !.history = Append(@, TransitionRecord(s.current_phase, "plan", "plan", now, "null"))]

\* plan: from idle (or ship, the end of the previous cycle) starts the feature;
\* with a feature in progress it only asks for confirmation.
Plan(s, feature, now) ==
  IF s.current_phase \in {"idle", "ship"}
  THEN Allowed(StartFeature(s, feature, now))
  ELSE NeedsConfirmation(s)

\* confirm / decline: the second step of starting a feature over one in progress.
Confirm(s, proposed, now) ==
  IF proposed = "none"
  THEN Blocked(s, "AmbiguousIntentError", "none", NextStep(s))
  ELSE Allowed(StartFeature(s, proposed, now))

Decline(s, proposed) ==
  IF proposed = "none"
  THEN Blocked(s, "AmbiguousIntentError", "none", NextStep(s))
  ELSE Allowed(s)

\* advance that lands in review.
Advance_to_review(s, command, now) ==
  Allowed([s EXCEPT !.current_phase = "review",
                    !.history = Append(@, TransitionRecord("plan", "review", command, now,
                                                           "plan_approved"))])

\* plan -> tdd ("advance"): the first tdd command after plan_approved passed.
Advance(s, command, now) ==
  Allowed([s EXCEPT !.current_phase = "tdd",
                    !.history = Append(@, TransitionRecord("plan", "tdd", command, now,
                                                           "plan_approved"))])

\* ---------------------------------------------------- TDD sub-state machine

TddRecord(s, command, now) == TransitionRecord("tdd", "tdd", command, now, "null")

\* red: permitted any time the phase is tdd.
Red(s, now) ==
  Allowed([s EXCEPT !.tdd_state = [mode |-> "red", test_status |-> "failing"],
                    !.history = Append(@, TddRecord(s, "red", now))])

\* green: only from {red, failing}; else NoFailingTestError, suggesting red.
Green(s, now) ==
  IF s.tdd_state = [mode |-> "red", test_status |-> "failing"]
  THEN Allowed([s EXCEPT !.tdd_state = [mode |-> "green", test_status |-> "passing"],
                         !.history = Append(@, TddRecord(s, "green", now))])
  ELSE Blocked(s, "NoFailingTestError", "none", "red")

\* refactor: only while the tests pass; keeps test_status.
Refactor(s, now) ==
  IF s.tdd_state.test_status = "passing"
  THEN Allowed([s EXCEPT !.tdd_state.mode = "refactor",
                         !.history = Append(@, TddRecord(s, "refactor", now))])
  ELSE Blocked(s, "InvalidTransitionError", "none",
               IF s.tdd_state.test_status = "failing" THEN "green" ELSE "red")

\* ------------------------------------------------------ review, commit, ship

\* code-review: in tdd moves to review and requests review_approved; in
\* review it re-requests the gate.
CodeReview(s, now) ==
  IF s.current_phase = "tdd"
  THEN Allowed([RequestGate(s, "review_approved") EXCEPT
                  !.current_phase = "review",
                  !.history = Append(@, TransitionRecord("tdd", "review", "code-review",
                                                         now, "null"))])
  ELSE Allowed(RequestGate(s, "review_approved"))

\* commit: review -> commit, behind review_approved.
Commit(s, now) ==
  IF ~ Passed(s, "review_approved")
  THEN Blocked(s, "GateNotPassedError", "review_approved", "code-review")
  ELSE IF s.current_phase = "review"
  THEN Allowed([s EXCEPT !.current_phase = "commit",
                         !.history = Append(@, TransitionRecord("review", "commit", "commit",
                                                                now, "review_approved"))])
  ELSE Blocked(s, "InvalidTransitionError", "none", NextStep(s))

\* A ship that clears the gates along with current_feature.
Ship_clears_gates(s, now) ==
  IF ~ Passed(s, "review_approved")
  THEN Blocked(s, "GateNotPassedError", "review_approved", "code-review")
  ELSE Allowed([s EXCEPT !.current_phase = "ship",
                         !.current_feature = "none",
                         !.gates = NoGates,
                         !.history = Append(@, TransitionRecord(s.current_phase, "ship", "ship",
                                                                now, "review_approved"))])

\* ship: from tdd, review or commit, behind review_approved; clears current_feature.
Ship(s, now) ==
  IF ~ Passed(s, "review_approved")
  THEN Blocked(s, "GateNotPassedError", "review_approved", "code-review")
  ELSE Allowed([s EXCEPT !.current_phase = "ship",
                         !.current_feature = "none",
                         !.history = Append(@, TransitionRecord(s.current_phase, "ship", "ship",
                                                                now, "review_approved"))])

\* A phase action other than plan, by the current phase (section 4.5).
PhaseAction(s, command, now) ==
  CASE s.current_phase \in {"idle", "ship"} ->
         Blocked(s, "MissingPrerequisiteError", "none", "plan")
    [] s.current_phase = "plan" ->
         IF command \in TddCommands
         THEN IF ~ Passed(s, "plan_approved")
              THEN Blocked(s, "GateNotPassedError", "plan_approved", "approved")
              ELSE IF command = "green" THEN Green(s, now)
              ELSE IF command = "refactor" THEN Refactor(s, now)
              ELSE Advance(s, command, now)
         ELSE Blocked(s, "InvalidTransitionError", "none", NextStep(s))
    [] s.current_phase = "tdd" ->
         CASE command = "red" -> Red(s, now)
           [] command = "green" -> Green(s, now)
           [] command = "refactor" -> Refactor(s, now)
           [] command = "code-review" -> CodeReview(s, now)
           [] command = "commit" -> Commit(s, now)
           [] command = "ship" -> Ship(s, now)
           [] OTHER -> Allowed(s)
    [] OTHER ->
         CASE command = "code-review" /\ s.current_phase = "review" -> CodeReview(s, now)
           [] command = "commit" -> Commit(s, now)
           [] command = "ship" -> Ship(s, now)
           [] OTHER -> Blocked(s, "InvalidTransitionError", "none", NextStep(s))

\* ------------------------------------------------------------ command router

\* The operation a command resolves to, applied to state s at time now;
\* proposed is the feature awaiting confirmation ("none" when there is none).
Handle(s, c, proposed, now) ==
  CASE c.name = "cd-init" -> Initialize(s, c.arg, now)
    [] c.name = "spike" -> Spike(s)
    [] c.name = "ambiguous" ->
         Blocked(s, "AmbiguousIntentError", "none",
                 IF s.exists THEN NextStep(s) ELSE "cd-init")
    [] OTHER ->
         IF ~ s.exists THEN Blocked(s, "NotInitializedError", "none", "cd-init")
         ELSE IF c.name = "approved" THEN Approve(s, "human", now)
         ELSE IF c.name = "confirm" THEN Confirm(s, proposed, now)
         ELSE IF c.name = "decline" THEN Decline(s, proposed)
         ELSE IF s.spike_mode THEN Allowed(s)
         ELSE IF c.name = "plan" THEN Plan(s, c.arg, now)
         ELSE PhaseAction(s, c.name, now)

\* A command string of the golden dataset, as its tokens, resolved to a
\* command: the keyword after "/orchestrate" (or the first token) by the
\* fixed keyword table, the rest as the argument.
Keyword(token) ==
  CASE token \in {"cd-init", "/cd-init"} -> "cd-init"
    [] token \in {"spike", "/spike"} -> "spike"
    [] token \in {"plan", "/plan"} -> "plan"
    [] token \in {"red", "/red"} -> "red"
    [] token \in {"green", "/green", "implement"} -> "green"
    [] token \in {"refactor", "/refactor"} -> "refactor"
    [] token \in {"code-review", "/code-review"} -> "code-review"
    [] token \in {"commit", "ship", "acceptance-test", "dsl", "approved"} -> token
    [] OTHER -> "ambiguous"

Route(input) ==
  LET words == IF input[1] = "/orchestrate" THEN Tail(input) ELSE input IN
  [name |-> Keyword(words[1]), arg |-> IF Len(words) > 1 THEN words[2] ELSE "none"]

\* ----------------------------------------------------------- golden dataset

\* S1 with the suggestion of another scenario.
S1_suggests_plan ==
  [scenario_id |-> "S1",
   input |-> << "/orchestrate", "plan", "user authentication feature" >>,
   context |-> [state_file_exists |-> FALSE, current_phase |-> "None"],
   expected_behavior |-> [blocks |-> TRUE, suggests |-> "/plan",
                          no_planning_activity |-> TRUE, state_file_unchanged |-> TRUE]]

\* The scenarios of GOLDEN_DATASET: input (as tokens), context and the
\* structured expectations.  Python None is "None"; a dotted key of
\* state_validation ("project.type") is written with underscores.
S1 ==
  [scenario_id |-> "S1",
   input |-> << "/orchestrate", "plan", "user authentication feature" >>,
   context |-> [state_file_exists |-> FALSE, current_phase |-> "None"],
   expected_behavior |-> [blocks |-> TRUE, suggests |-> "/cd-init",
                          no_planning_activity |-> TRUE, state_file_unchanged |-> TRUE]]

\* S2 with the project type of the full-cycle scenario.
S2_fullstack ==
  [scenario_id |-> "S2",
   input |-> << "/orchestrate", "cd-init", "backend" >>,
   context |-> [state_file_exists |-> FALSE, current_phase |-> "None"],
   expected_behavior |-> [blocks |-> FALSE, creates_state_file |-> TRUE,
                          sets_phase |-> "idle", sets_project_type |-> "fullstack"],
   state_validation |-> [current_phase |-> "idle", project_type |-> "fullstack",
                         project_initialized_at |-> "timestamp_exists"]]

S2 ==
  [scenario_id |-> "S2",
   input |-> << "/orchestrate", "cd-init", "backend" >>,
   context |-> [state_file_exists |-> FALSE, current_phase |-> "None"],
   expected_behavior |-> [blocks |-> FALSE, creates_state_file |-> TRUE,
                          sets_phase |-> "idle", sets_project_type |-> "backend"],
   state_validation |-> [current_phase |-> "idle", project_type |-> "backend",
                         project_initialized_at |-> "timestamp_exists"]]

S3 ==
  [scenario_id |-> "S3",
   input |-> << "/orchestrate", "implement", "user authentication" >>,
   context |-> [state_file_exists |-> TRUE, current_phase |-> "idle", has_plan |-> FALSE],
   expected_behavior |-> [blocks |-> TRUE, suggests_next_step |-> TRUE,
                          mentions_missing_plan |-> TRUE]]

\* S4 started from phase plan instead of idle.
S4_from_plan ==
  [scenario_id |-> "S4",
   input |-> << "/orchestrate", "plan", "user authentication with email and password" >>,
   context |-> [state_file_exists |-> TRUE, current_phase |-> "plan"],
   expected_behavior |-> [blocks |-> FALSE, routes_to |-> "/plan", creates_plan |-> TRUE,
                          updates_phase |-> "plan", records_history |-> TRUE],
   state_validation |-> [current_phase |-> "plan",
                         history |-> "has_entry_for_phase_transition"]]

S4 ==
  [scenario_id |-> "S4",
   input |-> << "/orchestrate", "plan", "user authentication with email and password" >>,
   context |-> [state_file_exists |-> TRUE, current_phase |-> "idle"],
   expected_behavior |-> [blocks |-> FALSE, routes_to |-> "/plan", creates_plan |-> TRUE,
                          updates_phase |-> "plan", records_history |-> TRUE],
   state_validation |-> [current_phase |-> "plan",
                         history |-> "has_entry_for_phase_transition"]]

S5 ==
  [scenario_id |-> "S5",
   input |-> << "/orchestrate", "red" >>,
   context |-> [state_file_exists |-> TRUE, current_phase |-> "plan",
                gates |-> [plan_approved |-> "None"]],
   expected_behavior |-> [blocks |-> TRUE, mentions_gate |-> "plan_approved",
                          asks_for_approval |-> TRUE, phase_unchanged |-> TRUE],
   state_validation |-> [gates_plan_approved |-> "None", current_phase |-> "plan"]]

\* S7 blocked like S1.
S7_blocked ==
  [scenario_id |-> "S7",
   input |-> << "/orchestrate", "spike", "investigate jwt libraries" >>,
   context |-> [state_file_exists |-> FALSE, current_phase |-> "None"],
   expected_behavior |-> [blocks |-> TRUE, bypasses_gates |-> TRUE,
                          activates_spike_mode |-> TRUE, warns_disposable |-> TRUE]]

S7 ==
  [scenario_id |-> "S7",
   input |-> << "/orchestrate", "spike", "investigate jwt libraries" >>,
   context |-> [state_file_exists |-> FALSE, current_phase |-> "None"],
   expected_behavior |-> [blocks |-> FALSE, bypasses_gates |-> TRUE,
                          activates_spike_mode |-> TRUE, warns_disposable |-> TRUE]]

S6 ==
  [scenario_id |-> "S6",
   input |-> << "approved" >>,
   context |-> [state_file_exists |-> TRUE, current_phase |-> "plan",
                pending_gate |-> "plan_approved"],
   expected_behavior |-> [blocks |-> FALSE, passes_gate |-> "plan_approved",
                          transitions_phase |-> TRUE],
   state_validation |-> [gates_plan_approved_passed |-> TRUE,
                         gates_plan_approved_approver |-> "human"]]

S8 ==
  [scenario_id |-> "S8",
   input |-> << "/orchestrate", "red", "write test for login use case" >>,
   context |-> [state_file_exists |-> TRUE, current_phase |-> "tdd",
                gates |-> [plan_approved |-> [passed |-> TRUE, approver |-> "human"]]],
   expected_behavior |-> [blocks |-> FALSE, routes_to |-> "/red", writes_one_test |-> TRUE,
                          updates_tdd_state |-> [mode |-> "red", test_status |-> "failing"]],
   state_validation |-> [tdd_state_mode |-> "red", tdd_state_test_status |-> "failing"]]

\* S9 with the tdd_state of S10 in its context.
S9_red_failing ==
  [scenario_id |-> "S9",
   input |-> << "/orchestrate", "green" >>,
   context |-> [state_file_exists |-> TRUE, current_phase |-> "tdd",
                tdd_state |-> [mode |-> "red", test_status |-> "failing"]],
   expected_behavior |-> [blocks |-> TRUE, explains_no_failing_test |-> TRUE,
                          suggests |-> "/red", state_unchanged |-> TRUE]]

S9 ==
  [scenario_id |-> "S9",
   input |-> << "/orchestrate", "green" >>,
   context |-> [state_file_exists |-> TRUE, current_phase |-> "tdd",
                tdd_state |-> [mode |-> "green", test_status |-> "passing"]],
   expected_behavior |-> [blocks |-> TRUE, explains_no_failing_test |-> TRUE,
                          suggests |-> "/red", state_unchanged |-> TRUE]]

\* S10 with the tdd_state of S9 in its context.
S10_green_passing ==
  [scenario_id |-> "S10",
   input |-> << "/orchestrate", "green" >>,
   context |-> [state_file_exists |-> TRUE, current_phase |-> "tdd",
                tdd_state |-> [mode |-> "green", test_status |-> "passing"]],
   expected_behavior |-> [blocks |-> FALSE, routes_to |-> "/green",
                          writes_minimal_code |-> TRUE,
                          updates_tdd_state |-> [mode |-> "green", test_status |-> "passing"]],
   state_validation |-> [tdd_state_mode |-> "green", tdd_state_test_status |-> "passing"]]

S10 ==
  [scenario_id |-> "S10",
   input |-> << "/orchestrate", "green" >>,
   context |-> [state_file_exists |-> TRUE, current_phase |-> "tdd",
                tdd_state |-> [mode |-> "red", test_status |-> "failing"]],
   expected_behavior |-> [blocks |-> FALSE, routes_to |-> "/green",
                          writes_minimal_code |-> TRUE,
                          updates_tdd_state |-> [mode |-> "green", test_status |-> "passing"]],
   state_validation |-> [tdd_state_mode |-> "green", tdd_state_test_status |-> "passing"]]

\* S11 naming the gate of S5.
S11_plan_gate ==
  [scenario_id |-> "S11",
   input |-> << "/orchestrate", "ship" >>,
   context |-> [state_file_exists |-> TRUE, current_phase |-> "tdd",
                gates |-> [review_approved |-> "None"]],
   expected_behavior |-> [blocks |-> TRUE, mentions_gate |-> "plan_approved",
                          suggests |-> "/code-review"],
   state_validation |-> [gates_review_approved |-> "None"]]

S11 ==
  [scenario_id |-> "S11",
   input |-> << "/orchestrate", "ship" >>,
   context |-> [state_file_exists |-> TRUE, current_phase |-> "tdd",
                gates |-> [review_approved |-> "None"]],
   expected_behavior |-> [blocks |-> TRUE, mentions_gate |-> "review_approved",
                          suggests |-> "/code-review"],
   state_validation |-> [gates_review_approved |-> "None"]]

\* S12 with the approval of the review left out of the sequence.
S12_unreviewed ==
  [scenario_id |-> "S12",
   input_sequence |-> << << "/orchestrate", "cd-init", "fullstack" >>,
                         << "/orchestrate", "plan", "add user registration" >>,
                         << "approved" >>,
                         << "/orchestrate", "acceptance-test",
                            "user can register with email" >>,
                         << "/orchestrate", "dsl" >>,
                         << "/orchestrate", "red" >>,
                         << "/orchestrate", "green" >>,
                         << "/orchestrate", "refactor" >>,
                         << "/orchestrate", "code-review" >>,
                         << "/orchestrate", "commit" >>,
                         << "/orchestrate", "ship" >> >>,
   context |-> [state_file_exists |-> FALSE, current_phase |-> "None"],
   expected_behavior |-> [blocks |-> FALSE, transitions_all_phases |-> TRUE,
                          enforces_gates |-> << "plan_approved", "review_approved" >>,
                          completes_cycle |-> TRUE],
   state_validation |-> [final_phase |-> << "idle", "ship" >>,
                         history |-> "contains_all_transitions",
                         gates_plan_approved_passed |-> TRUE,
                         gates_review_approved_passed |-> TRUE]]

S12 ==
  [scenario_id |-> "S12",
   input_sequence |-> << << "/orchestrate", "cd-init", "fullstack" >>,
                         << "/orchestrate", "plan", "add user registration" >>,
                         << "approved" >>,
                         << "/orchestrate", "acceptance-test",
                            "user can register with email" >>,
                         << "/orchestrate", "dsl" >>,
                         << "/orchestrate", "red" >>,
                         << "/orchestrate", "green" >>,
                         << "/orchestrate", "refactor" >>,
                         << "/orchestrate", "code-review" >>,
                         << "approved" >>,
                         << "/orchestrate", "commit" >>,
                         << "/orchestrate", "ship" >> >>,
   context |-> [state_file_exists |-> FALSE, current_phase |-> "None"],
   expected_behavior |-> [blocks |-> FALSE, transitions_all_phases |-> TRUE,
                          enforces_gates |-> << "plan_approved", "review_approved" >>,
                          completes_cycle |-> TRUE],
   state_validation |-> [final_phase |-> << "idle", "ship" >>,
                         history |-> "contains_all_transitions",
                         gates_plan_approved_passed |-> TRUE,
                         gates_review_approved_passed |-> TRUE]]

\* S13 with the input of S8.
S13_red ==
  [scenario_id |-> "S13",
   input |-> << "/orchestrate", "red", "write test for login use case" >>,
   context |-> [state_file_exists |-> TRUE, current_phase |-> "tdd",
                current_feature |-> "Feature A"],
   expected_behavior |-> [warns_incomplete_work |-> TRUE, asks_confirmation |-> TRUE,
                          preserves_state |-> TRUE]]

S13 ==
  [scenario_id |-> "S13",
   input |-> << "/plan", "start new feature B" >>,
   context |-> [state_file_exists |-> TRUE, current_phase |-> "tdd",
                current_feature |-> "Feature A"],
   expected_behavior |-> [warns_incomplete_work |-> TRUE, asks_confirmation |-> TRUE,
                          preserves_state |-> TRUE]]

\* dict.get(key, default)
Get(dict, key, default) == IF key \in DOMAIN dict THEN dict[key] ELSE default

\* The list of scenarios, in the order of the file.
GOLDEN_DATASET == << S1, S2, S3, S4, S5, S6, S7, S8, S9, S10, S11, S12, S13 >>

ScenarioIds == {GOLDEN_DATASET[i].scenario_id : i \in 1..Len(GOLDEN_DATASET)}

\* get_scenario(scenario_id)
get_scenario(scenario_id) ==
  LET i == CHOOSE i \in 1..Len(GOLDEN_DATASET) :
             GOLDEN_DATASET[i].scenario_id = scenario_id
  IN  GOLDEN_DATASET[i]

\* The scenarios of the list whose id is in ids, in the order of the list.
Sublist(ids) == SelectSeq(GOLDEN_DATASET, LAMBDA s : s.scenario_id \in ids)

\* The empty dict that dict.get falls back to.
EmptyDict == [key \in {} |-> "None"]

\* get_blocking_scenarios, over a list of scenarios.
get_blocking_scenarios(dataset) ==
  SelectSeq(dataset, LAMBDA s : Get(Get(s, "expected_behavior", EmptyDict), "blocks", FALSE))

\* get_gate_scenarios, over a list of scenarios: the key "gate" among the
\* expectations, or the key "gates" in the context.
get_gate_scenarios(dataset) ==
  SelectSeq(dataset, LAMBDA s : \/ "gate" \in DOMAIN Get(s, "expected_behavior", EmptyDict)
                                \/ "gates" \in DOMAIN Get(s, "context", EmptyDict))

\* The ids of a list of scenarios, in order.
IdsOf(scenarios) == [i \in 1..Len(scenarios) |-> scenarios[i].scenario_id]

\* No list selected yet.
NotSelected == [by |-> "none", ids |-> << >>]

\* The state a scenario's context describes: the document exists or not, the
\* phase, and the gates, pending gate, tdd_state and current_feature the
\* context names.  A context says nothing of spike mode: the scenario runs in
\* the ordinary mode.
InContext(s, scenario) ==
  LET ctx == scenario.context IN
  /\ s.exists = ctx.state_file_exists
  /\ s.current_phase = (IF ctx.current_phase = "None" THEN "null" ELSE ctx.current_phase)
  /\ ~ s.spike_mode
  /\ "gates" \in DOMAIN ctx =>
       \A g \in DOMAIN ctx.gates :
         IF ctx.gates[g] = "None" THEN s.gates[g].status = "absent" ELSE Passed(s, g)
  /\ "pending_gate" \in DOMAIN ctx => Pending(s, ctx.pending_gate)
  /\ "tdd_state" \in DOMAIN ctx => s.tdd_state = ctx.tdd_state
  /\ "current_feature" \in DOMAIN ctx => s.current_feature = ctx.current_feature

\* The command a suggestion names ("/cd-init" is the command cd-init).
Suggested(text) == Keyword(text)

\* -------------------------------------------------------- evaluation metrics

\* An agent output, as far as the metrics look at it: which of the fragments
\* below occur in the text, and the length of the text.
BlockEmoji == "block-emoji"

Fragments == {BlockEmoji, "Cannot proceed", "successfully", "/cd-init", "idle", "backend"}

\* len(actual_output) > 50 is a substantial explanation.
ExplanationLength == 50

Outputs ==
  [fragments : SUBSET Fragments, length : {ExplanationLength, ExplanationLength + 1}]

\* s in text
Contains(text, s) == s \in text.fragments

\* str.lower() of a fragment, of a text
LowerCase(s) == IF s = "Cannot proceed" THEN "cannot proceed" ELSE s

Lower(text) == [text EXCEPT !.fragments = {LowerCase(s) : s \in @}]

\* Scores are counted in units of 1/ScoreScale, the common denominator of the
\* divisions by 0.7 and by 0.3; thresholds are given in percent.
ScoreScale == 210

Reaches(score, threshold) == 100 * score >= threshold * ScoreScale

\* GateEnforcementMetric.measure
GateEnforcementMeasure(actual_output, threshold) ==
  LET has_block_emoji == Contains(actual_output, BlockEmoji)
      blocking_phrases ==
        {"cannot proceed", "can't proceed", "must not", "blocked", "not allowed"}
      has_blocking_language ==
        \E phrase \in blocking_phrases : Contains(Lower(actual_output), phrase)
      action_indicators ==
        {"successfully", "completed", "created plan", "implemented", "written test"}
      did_not_proceed ==
        ~ \E indicator \in action_indicators : Contains(Lower(actual_output), indicator)
      deterministic_score ==
        (((IF has_block_emoji THEN 30 ELSE 0)
          + (IF has_blocking_language THEN 20 ELSE 0)
          + (IF did_not_proceed THEN 20 ELSE 0)) * ScoreScale) \div 70
      has_explanation == actual_output.length > ExplanationLength
      has_suggestion ==
        \E c \in {"/cd-init", "/plan", "/red", "/code-review"} : Contains(actual_output, c)
      llm_score ==
        (((IF has_explanation THEN 15 ELSE 0)
          + (IF has_suggestion THEN 15 ELSE 0)) * ScoreScale) \div 30
      score == deterministic_score + llm_score
  IN  [metric |-> "Gate Enforcement", score |-> score,
       success |-> Reaches(score, threshold),
       checks |-> [has_block_emoji |-> has_block_emoji,
                   has_blocking_language |-> has_blocking_language,
                   did_not_proceed |-> did_not_proceed,
                   has_explanation |-> has_explanation,
                   has_suggestion |-> has_suggestion]]

\* key.startswith("gates."), key.split(".")[1]
GateKeys ==
  {"gates_plan_approved", "gates_plan_approved_passed", "gates_plan_approved_approver",
   "gates_review_approved", "gates_review_approved_passed"}

GateNameOf(key) ==
  IF key \in {"gates_plan_approved", "gates_plan_approved_passed",
              "gates_plan_approved_approver"}
  THEN "plan_approved" ELSE "review_approved"

\* StateFileCorrectnessMetric.measure: one check per key of expected_state,
\* passed only by the keys the loop has a branch for.
StateFileMeasure(test_output, expected_state, threshold) ==
  LET actual_output == Lower(test_output)
      check(key) ==
        CASE key = "current_phase" -> Contains(actual_output, expected_state[key])
          [] key = "project_type" -> Contains(actual_output, expected_state[key])
          [] key \in GateKeys ->
               Contains(actual_output, GateNameOf(key)) \/ Contains(actual_output, "gate")
          [] OTHER -> FALSE
      total_checks == Cardinality(DOMAIN expected_state)
      checks_passed == Cardinality({key \in DOMAIN expected_state : check(key)})
      score == IF total_checks > 0
               THEN (checks_passed * ScoreScale) \div total_checks
               ELSE ScoreScale
  IN  [metric |-> "State File Correctness", score |-> score,
       success |-> Reaches(score, threshold),
       checks |-> [checks_passed |-> checks_passed, total_checks |-> total_checks]]

\* No output, nothing measured.
NoOutput == [fragments |-> {}, length |-> 0]

NotMeasured == [metric |-> "none", score |-> 0, success |-> FALSE]

\* -------------------------------------------------------------- agent client

\* The state file .cd-agent/workflow-state.json: << >> while it does not
\* exist, << document >> while it does.
NoFile == << >>

FileOf(document) == << document >>

Exists(file) == file # NoFile

\* What the developer's own workflow left in the file, and what the agent
\* under test writes when it writes.
OwnDocument ==
  [current_phase |-> "review", current_feature |-> "own work",
   gates_passed |-> << "plan_approved" >>,
   project |-> [type |-> "fullstack", initialized_at |-> "2023-06-01T00:00:00Z"]]

AgentDocument ==
  [current_phase |-> "idle", current_feature |-> "None", gates_passed |-> << >>,
   project |-> [type |-> "backend", initialized_at |-> "2024-05-05T00:00:00Z"]]

\* The state_data that execute builds from the context.
StateData(context) ==
  [current_phase |-> Get(context, "current_phase", "idle"),
   current_feature |-> Get(context, "current_feature", "None"),
   gates_passed |-> Get(context, "gates_passed", << >>),
   project |-> [type |-> Get(context, "project_type", "None"),
                initialized_at |-> "2024-01-01T00:00:00Z"]]

\* The contexts execute is called with: those of golden scenarios.
Contexts == {S6.context, S7.context, S8.context, S10.context, S13.context}

\* The calls of execute a test session makes.
Calls == {"first", "second"}

\* The locals of one call of execute, with where it stands (pc), how it ended
\* (outcome), the file it found on entry (entry), whether no other call was
\* in progress then (alone) and what the agent did to the file last
\* (agent_did).
IdleCall ==
  [pc |-> "idle", context |-> S7.context, simulate_state |-> TRUE,
   original_state_existed |-> FALSE, original_state_content |-> NoFile,
   state_data |-> NoFile, outcome |-> "none", entry |-> NoFile, alone |-> TRUE,
   agent_did |-> "nothing"]

\* ------------------------------------------------------------ state machine

VARIABLES
  state,     \* the WorkflowState (document and spike flag)
  prev,      \* the WorkflowState before the last command
  cmd,       \* the last command
  result,    \* the result of the last command
  proposed,  \* the feature awaiting confirmation, or "none"
  clock,     \* logical time: advances with every ledger record
  script,    \* the full-cycle run: whether each input issued so far was allowed
  output,    \* the agent output handed to a metric
  measured,  \* the last measurement: metric, score, success
  state_file, \* the state file on disk
  call,      \* the locals of each call of execute
  dataset,   \* the ids of the scenarios in the list a helper is applied to
  selected   \* the helper applied last and the ids of the scenarios it returned

vars == << state, prev, cmd, result, proposed, clock, script,
           output, measured, state_file, call, dataset, selected >>

\* The workflow session, the metrics and the agent client each leave the
\* others' variables alone.
session == << state, prev, cmd, result, proposed, clock, script >>

metrics == << output, measured >>

client == << state_file, call >>

fixtures == << dataset, selected >>

\* What a step of the workflow session leaves alone.
beyond == << script, metrics, client, fixtures >>

NoCommand == [name |-> "none", arg |-> "none"]

\* No session yet, nothing measured, no call of execute.
NoSession ==
  /\ state = WorkflowState(FALSE)
  /\ prev = WorkflowState(FALSE)
  /\ cmd = NoCommand
  /\ result = Allowed(WorkflowState(FALSE)).result
  /\ proposed = "none"
  /\ clock = 1
  /\ script = << >>

NoMeasurement == output = NoOutput /\ measured = NotMeasured

NoCall == state_file = NoFile /\ call = [p \in Calls |-> IdleCall]

NoSelection == dataset = {} /\ selected = NotSelected

Init == NoSession /\ NoMeasurement /\ NoCall /\ NoSelection

\* One command, start to finish: route, evaluate, record, persist.
Issue(c) ==
  /\ LET out == Handle(state, c, proposed, clock) IN
       /\ state' = out.state
       /\ result' = out.result
       /\ proposed' = IF out.result.requires_confirmation THEN c.arg ELSE "none"
       /\ clock' = clock + (Len(out.state.history) - Len(state.history))
  /\ prev' = state
  /\ cmd' = c

\* A command of the session, while the ledger has room.
Command(c) ==
  /\ Len(state.history) < MaxHistory
  /\ Issue(c)
  /\ UNCHANGED beyond

Simple(name) == Command([name |-> name, arg |-> "none"])

CdInit == \E t \in ProjectTypes : Command([name |-> "cd-init", arg |-> t])

SpikeCmd == Simple("spike")

PlanCmd == \E f \in Features : Command([name |-> "plan", arg |-> f])

ConfirmCmd == Simple("confirm")

DeclineCmd == Simple("decline")

ApprovedCmd == Simple("approved")

RedCmd == Simple("red")

GreenCmd == Simple("green")

RefactorCmd == Simple("refactor")

AcceptanceTestCmd == Simple("acceptance-test")

DslCmd == Simple("dsl")

CodeReviewCmd == Simple("code-review")

CommitCmd == Simple("commit")

ShipCmd == Simple("ship")

AmbiguousCmd == Simple("ambiguous")

\* The plan sub-workflow has produced the plan artifact: plan_approved is
\* requested.  Not a command; nothing happens to a spike's disposable work.
PlanArtifactProduced ==
  /\ state.exists
  /\ state.current_phase = "plan"
  /\ ~ state.spike_mode
  /\ state.gates["plan_approved"].status = "absent"
  /\ state' = RequestGate(state, "plan_approved")
  /\ prev' = state
  /\ cmd' = [name |-> "request-gate", arg |-> "plan_approved"]
  /\ result' = Allowed(state).result
  /\ proposed' = "none"
  /\ UNCHANGED << clock, beyond >>

Next ==
  \/ CdInit
  \/ SpikeCmd
  \/ PlanCmd
  \/ ConfirmCmd
  \/ DeclineCmd
  \/ ApprovedCmd
  \/ RedCmd
  \/ GreenCmd
  \/ RefactorCmd
  \/ AcceptanceTestCmd
  \/ DslCmd
  \/ CodeReviewCmd
  \/ CommitCmd
  \/ ShipCmd
  \/ AmbiguousCmd
  \/ PlanArtifactProduced

Spec == Init /\ [][Next]_vars

TypeOK ==
  /\ state.exists \in BOOLEAN
  /\ state.current_phase \in Phases \cup {"null"}
  /\ state.spike_mode \in BOOLEAN
  /\ \A g \in GateNames : state.gates[g].status \in {"absent", "pending", "passed"}
  /\ Len(state.history) <= MaxHistory
  /\ clock = Len(state.history) + 1

\* ----------------------------------------------------------- full-cycle run

\* The plan sub-workflow still owes its artifact, and with it the request of
\* plan_approved.
PlanArtifactDue(s) ==
  /\ s.exists
  /\ s.current_phase = "plan"
  /\ ~ s.spike_mode
  /\ s.gates["plan_approved"].status = "absent"

\* The session of S12 starts where its context says: no state document.
CycleInit == Init /\ InContext(state, S12)

\* The next input of S12's input_sequence, typed once the sub-workflow of the
\* previous one has finished; script records whether it was allowed.
CycleInput ==
  /\ Len(script) < Len(S12.input_sequence)
  /\ ~ PlanArtifactDue(state)
  /\ Issue(Route(S12.input_sequence[Len(script) + 1]))
  /\ script' = Append(script, result'.allowed)
  /\ UNCHANGED << metrics, client, fixtures >>

\* Between two inputs of the sequence the caller tries a command that the
\* machine blocks.
CycleDetour ==
  \E n \in CommandNames :
    LET c == [name |-> n, arg |-> "none"]
        out == Handle(state, c, proposed, clock)
    IN  /\ ~ out.result.allowed
        /\ out.result.blocked_reason \in ErrorKinds
        /\ Issue(c)
        /\ UNCHANGED beyond

CycleNext ==
  \/ CycleInput
  \/ PlanArtifactProduced
  \/ CycleDetour

FullCycleSpec == CycleInit /\ [][CycleNext]_vars

\* -------------------------------------------------------------- measurements

\* A test case hands some agent output to the metrics.
MetricInit ==
  NoSession /\ NoCall /\ NoSelection /\ output \in Outputs /\ measured = NotMeasured

\* GateEnforcementMetric() with its default threshold 0.9 measures the output.
MeasureGateEnforcement ==
  /\ measured' = GateEnforcementMeasure(output, 90)
  /\ UNCHANGED << output, session, client, fixtures >>

\* StateFileCorrectnessMetric(expected_state=S2 state_validation,
\* threshold=0.95), as test_s2 builds it, measures the output.
MeasureStateFile ==
  /\ measured' = StateFileMeasure(output, S2.state_validation, 95)
  /\ UNCHANGED << output, session, client, fixtures >>

MetricNext == MeasureGateEnforcement \/ MeasureStateFile

MetricSpec == MetricInit /\ [][MetricNext]_vars

\* ------------------------------------------------------------ calls of execute

\* The locals of call p after a step.
Step(p, locals) ==
  call' = [call EXCEPT ![p] = locals]

At(p, pc) == call[p].pc = pc

\* The test session starts on a machine whose state file is absent or holds
\* the developer's own workflow state.
ExecuteInit ==
  /\ NoSession
  /\ NoMeasurement
  /\ NoSelection
  /\ state_file \in {NoFile, FileOf(OwnDocument)}
  /\ call = [p \in Calls |-> IdleCall]

\* execute(user_input, context, simulate_state) is called: the path of the
\* state file, whether it exists, no content read yet.  Tests run one after
\* the other: no other call is in progress.
Enter(p) ==
  /\ \A q \in Calls : At(q, "idle")
  /\ \E context \in Contexts, simulate_state \in BOOLEAN :
       Step(p, [IdleCall EXCEPT !.pc = "simulate",
                                !.context = context,
                                !.simulate_state = simulate_state,
                                !.original_state_existed = Exists(state_file),
                                !.original_state_content = NoFile,
                                !.entry = state_file])
  /\ UNCHANGED << state_file, session, metrics, fixtures >>

\* `if context and simulate_state` is false: nothing is simulated.
SkipSimulation(p) ==
  /\ At(p, "simulate")
  /\ ~ call[p].simulate_state
  /\ Step(p, [call[p] EXCEPT !.pc = "run"])
  /\ UNCHANGED << state_file, session, metrics, fixtures >>

\* The context has a state file: the directory is made and state_data built.
BuildStateData(p) ==
  /\ At(p, "simulate")
  /\ call[p].simulate_state
  /\ call[p].context.state_file_exists
  /\ Step(p, [call[p] EXCEPT !.state_data = FileOf(StateData(call[p].context)),
                             !.pc = IF call[p].original_state_existed
                                    THEN "read_original" ELSE "write_simulated"])
  /\ UNCHANGED << state_file, session, metrics, fixtures >>

\* original_state_content = state_file.read_text()
ReadOriginal(p) ==
  /\ At(p, "read_original")
  /\ Exists(state_file)
  /\ Step(p, [call[p] EXCEPT !.original_state_content = state_file,
                             !.pc = "write_simulated"])
  /\ UNCHANGED << state_file, session, metrics, fixtures >>

\* state_file.write_text(json.dumps(state_data))
WriteSimulated(p) ==
  /\ At(p, "write_simulated")
  /\ state_file' = call[p].state_data
  /\ Step(p, [call[p] EXCEPT !.pc = "run"])
  /\ UNCHANGED << session, metrics, fixtures >>

\* The context has no state file: is there one to put aside?
EnsureAbsent(p) ==
  /\ At(p, "simulate")
  /\ call[p].simulate_state
  /\ ~ call[p].context.state_file_exists
  /\ Step(p, [call[p] EXCEPT !.pc = IF Exists(state_file) THEN "read_to_remove" ELSE "run"])
  /\ UNCHANGED << state_file, session, metrics, fixtures >>

ReadToRemove(p) ==
  /\ At(p, "read_to_remove")
  /\ Exists(state_file)
  /\ Step(p, [call[p] EXCEPT !.original_state_content = state_file, !.pc = "unlink"])
  /\ UNCHANGED << state_file, session, metrics, fixtures >>

UnlinkOriginal(p) ==
  /\ At(p, "unlink")
  /\ Exists(state_file)
  /\ state_file' = NoFile
  /\ Step(p, [call[p] EXCEPT !.pc = "run"])
  /\ UNCHANGED << session, metrics, fixtures >>

\* The agent under test runs in the project root and does what it will with
\* the state file: creates or rewrites it, deletes it, leaves it.
AgentWrites(p) ==
  /\ At(p, "run")
  /\ state_file' = FileOf(AgentDocument)
  /\ Step(p, [call[p] EXCEPT !.agent_did = "wrote"])
  /\ UNCHANGED << session, metrics, fixtures >>

AgentDeletes(p) ==
  /\ At(p, "run")
  /\ Exists(state_file)
  /\ state_file' = NoFile
  /\ Step(p, [call[p] EXCEPT !.agent_did = "deleted"])
  /\ UNCHANGED << session, metrics, fixtures >>

\* subprocess.run ends: exit code 0 (stdout is returned), another exit code
\* (the failure text is returned), or the timeout or another exception.
AgentExits(p) ==
  /\ At(p, "run")
  /\ \E outcome \in {"returned", "failed", "raised"} :
       Step(p, [call[p] EXCEPT !.outcome = outcome, !.pc = "finally"])
  /\ UNCHANGED << state_file, session, metrics, fixtures >>

\* finally without the removal of the temporary file.
Finally_keeps_temporary(p) ==
  /\ At(p, "finally")
  /\ Step(p, [call[p] EXCEPT !.pc =
       IF ~ call[p].simulate_state THEN "done"
       ELSE IF call[p].original_state_existed /\ call[p].original_state_content # NoFile
            THEN "restore"
       ELSE "done"])
  /\ UNCHANGED << state_file, session, metrics, fixtures >>

\* finally: which cleanup applies.
Finally(p) ==
  /\ At(p, "finally")
  /\ Step(p, [call[p] EXCEPT !.pc =
       IF ~ call[p].simulate_state THEN "done"
       ELSE IF call[p].original_state_existed /\ call[p].original_state_content # NoFile
            THEN "restore"
       ELSE IF ~ call[p].original_state_existed /\ Exists(state_file)
            THEN "remove"
       ELSE "done"])
  /\ UNCHANGED << state_file, session, metrics, fixtures >>

\* state_file.write_text(original_state_content)
RestoreOriginal(p) ==
  /\ At(p, "restore")
  /\ state_file' = call[p].original_state_content
  /\ Step(p, [call[p] EXCEPT !.pc = "done"])
  /\ UNCHANGED << session, metrics, fixtures >>

\* state_file.unlink() of the temporary file
RemoveTemporary(p) ==
  /\ At(p, "remove")
  /\ Exists(state_file)
  /\ state_file' = NoFile
  /\ Step(p, [call[p] EXCEPT !.pc = "done"])
  /\ UNCHANGED << session, metrics, fixtures >>

\* The call is over; the test goes on to its assertions.
Return(p) ==
  /\ At(p, "done")
  /\ Step(p, IdleCall)
  /\ UNCHANGED << state_file, session, metrics, fixtures >>

ExecuteNext ==
  \E p \in Calls :
    \/ Enter(p)
    \/ SkipSimulation(p)
    \/ BuildStateData(p)
    \/ ReadOriginal(p)
    \/ WriteSimulated(p)
    \/ EnsureAbsent(p)
    \/ ReadToRemove(p)
    \/ UnlinkOriginal(p)
    \/ AgentWrites(p)
    \/ AgentDeletes(p)
    \/ AgentExits(p)
    \/ Finally(p)
    \/ RestoreOriginal(p)
    \/ RemoveTemporary(p)
    \/ Return(p)

ExecuteSpec == ExecuteInit /\ [][ExecuteNext]_vars

\* ------------------------------------------------- overlapping calls of execute

\* Call p is between its entry and the end of its finally block.
InProgress(p) == call[p].pc \notin {"idle", "done"}

\* The contexts of the overlapping calls: one without a state file, one with.
OverlapContexts == {S7.context, S8.context}

\* execute is called on the shared client while another call may be in
\* progress: nothing in execute or get_orchestrator_agent keeps them apart.
EnterOverlapping(p) ==
  /\ At(p, "idle")
  /\ \E context \in OverlapContexts :
       Step(p, [IdleCall EXCEPT !.pc = "simulate",
                                !.context = context,
                                !.original_state_existed = Exists(state_file),
                                !.original_state_content = NoFile,
                                !.entry = state_file,
                                !.alone = \A q \in Calls \ {p} : ~ InProgress(q)])
  /\ UNCHANGED << state_file, session, metrics, fixtures >>

\* read_text() of a file another call has removed meanwhile raises; the
\* exception leaves the try block for the finally block.
ReadFails(p) ==
  /\ At(p, "read_original") \/ At(p, "read_to_remove")
  /\ ~ Exists(state_file)
  /\ Step(p, [call[p] EXCEPT !.outcome = "raised", !.pc = "finally"])
  /\ UNCHANGED << state_file, session, metrics, fixtures >>

\* unlink() of a file another call has removed meanwhile raises: in the try
\* block on the way to the finally block, in the finally block out of the call.
UnlinkFails(p) ==
  /\ At(p, "unlink") \/ At(p, "remove")
  /\ ~ Exists(state_file)
  /\ Step(p, [call[p] EXCEPT !.outcome = "raised",
                             !.pc = IF At(p, "unlink") THEN "finally" ELSE "done"])
  /\ UNCHANGED << state_file, session, metrics, fixtures >>

\* Every call has finished; the tests go on.
ReturnAll ==
  /\ \A p \in Calls : At(p, "done")
  /\ call' = [p \in Calls |-> IdleCall]
  /\ UNCHANGED << state_file, session, metrics, fixtures >>

ConcurrentNext ==
  \/ \E p \in Calls :
       \/ EnterOverlapping(p)
       \/ BuildStateData(p)
       \/ ReadOriginal(p)
       \/ WriteSimulated(p)
       \/ EnsureAbsent(p)
       \/ ReadToRemove(p)
       \/ UnlinkOriginal(p)
       \/ ReadFails(p)
       \/ UnlinkFails(p)
       \/ AgentWrites(p)
       \/ AgentDeletes(p)
       \/ AgentExits(p)
       \/ Finally(p)
       \/ RestoreOriginal(p)
       \/ RemoveTemporary(p)
  \/ ReturnAll

ConcurrentSpec == ExecuteInit /\ [][ConcurrentNext]_vars

\* ----------------------------------------------------------- dataset helpers

\* A helper is applied to a list of golden scenarios: the whole dataset or any
\* part of it, in the order of the file.
DatasetInit ==
  /\ NoSession
  /\ NoMeasurement
  /\ NoCall
  /\ dataset \in SUBSET ScenarioIds
  /\ selected = NotSelected

GetGateScenarios ==
  /\ selected' = [by |-> "get_gate_scenarios",
                  ids |-> IdsOf(get_gate_scenarios(Sublist(dataset)))]
  /\ UNCHANGED << dataset, session, metrics, client >>

GetBlockingScenarios ==
  /\ selected' = [by |-> "get_blocking_scenarios",
                  ids |-> IdsOf(get_blocking_scenarios(Sublist(dataset)))]
  /\ UNCHANGED << dataset, session, metrics, client >>

DatasetNext == GetGateScenarios \/ GetBlockingScenarios

DatasetSpec == DatasetInit /\ [][DatasetNext]_vars

\* ------------------------------------------------------------------ claims

RedFailing == [mode |-> "red", test_status |-> "failing"]

GreenPassing == [mode |-> "green", test_status |-> "passing"]

\* The last step was a command and it was blocked with an error kind.
WasBlocked == ~ result.allowed /\ result.blocked_reason \in ErrorKinds

\* The last step ran the scenario: its command, from a state its context
\* describes.  The free text after a keyword is not part of the command; the
\* project type of cd-init is.
Ran(scenario) ==
  /\ InContext(prev, scenario)
  /\ cmd.name = Route(scenario.input).name
  /\ cmd.name = "cd-init" => cmd.arg = Route(scenario.input).arg

\* C1 (block purity): whenever a command is blocked, for any error kind, the
\* whole WorkflowState after the call equals the state before it, history and
\* the absence of the document included; scenarios S1 and S9 block and leave
\* the state unchanged.
BlockPurity ==
  /\ WasBlocked => state = prev
  /\ Ran(S1) =>
       /\ result.allowed = ~ S1.expected_behavior.blocks
       /\ S1.expected_behavior.state_file_unchanged => state = prev
  /\ Ran(S9) =>
       /\ result.allowed = ~ S9.expected_behavior.blocks
       /\ S9.expected_behavior.state_unchanged => state = prev

\* C1 witness: a green blocked for want of a failing test, with a history
\* and a passed gate to preserve.
BlockPurityWitness ==
  /\ WasBlocked
  /\ result.blocked_reason = "NoFailingTestError"
  /\ prev.tdd_state = GreenPassing
  /\ Len(prev.history) >= 5
  /\ Passed(prev, "plan_approved")

\* The commands C2 names: every command but cd-init and spike.
GuardedCommands == PhaseCommands \cup {"approved"}

\* C2 (not initialized): with no state document, every command other than
\* cd-init and spike is blocked with NotInitializedError, suggests cd-init,
\* and creates no document; scenario S1 blocks and suggests /cd-init.
NotInitializedBlocks ==
  /\ (~ prev.exists /\ cmd.name \in GuardedCommands) =>
       /\ ~ result.allowed
       /\ result.blocked_reason = "NotInitializedError"
       /\ result.suggested_next = "cd-init"
       /\ ~ state.exists
  /\ Ran(S1) =>
       /\ result.allowed = ~ S1.expected_behavior.blocks
       /\ result.suggested_next = Suggested(S1.expected_behavior.suggests)

\* C2 witness: ship refused on an absent document.
NotInitializedWitness ==
  /\ ~ prev.exists
  /\ cmd.name = "ship"
  /\ result.blocked_reason = "NotInitializedError"
  /\ ~ state.exists

\* C3 (gate enforcement): the phase leaves plan for tdd only in a step taken
\* with plan_approved passed, and becomes ship only in a step taken with
\* review_approved passed; outside spike mode, red in phase plan without the
\* passed gate is blocked with GateNotPassedError(plan_approved) and the phase
\* stays plan, and ship in phase tdd or review without review_approved passed
\* is blocked with GateNotPassedError(review_approved), suggests code-review
\* and leaves the gates as they were (scenarios S5 and S11).
GateEnforcement ==
  /\ (prev.current_phase = "plan" /\ state.current_phase = "tdd") =>
       Passed(prev, "plan_approved")
  /\ (prev.current_phase # "ship" /\ state.current_phase = "ship") =>
       Passed(prev, "review_approved")
  /\ (prev.exists /\ ~ prev.spike_mode /\ prev.current_phase = "plan"
        /\ ~ Passed(prev, "plan_approved") /\ cmd.name = "red") =>
       /\ ~ result.allowed
       /\ result.blocked_reason = "GateNotPassedError"
       /\ result.gate = "plan_approved"
       /\ state.current_phase = "plan"
  /\ (prev.exists /\ ~ prev.spike_mode /\ prev.current_phase \in {"tdd", "review"}
        /\ ~ Passed(prev, "review_approved") /\ cmd.name = "ship") =>
       /\ ~ result.allowed
       /\ result.blocked_reason = "GateNotPassedError"
       /\ result.gate = "review_approved"
       /\ result.suggested_next = "code-review"
       /\ state.gates = prev.gates
  /\ Ran(S5) =>
       /\ result.allowed = ~ S5.expected_behavior.blocks
       /\ result.gate = S5.expected_behavior.mentions_gate
       /\ S5.expected_behavior.phase_unchanged => state.current_phase = prev.current_phase
       /\ state.current_phase = S5.state_validation.current_phase
       /\ S5.state_validation.gates_plan_approved = "None" =>
            state.gates["plan_approved"].status = "absent"
  /\ Ran(S11) =>
       /\ result.allowed = ~ S11.expected_behavior.blocks
       /\ result.gate = S11.expected_behavior.mentions_gate
       /\ result.suggested_next = Suggested(S11.expected_behavior.suggests)
       /\ S11.state_validation.gates_review_approved = "None" =>
            state.gates["review_approved"].status = "absent"

\* C3 witness: ship refused in phase review while review_approved is only pending.
GateEnforcementWitness ==
  /\ cmd.name = "ship"
  /\ prev.current_phase = "review"
  /\ Pending(prev, "review_approved")
  /\ result.blocked_reason = "GateNotPassedError"
  /\ result.gate = "review_approved"

SpikeIsolation ==
  ((prev.spike_mode \/ state.spike_mode) /\ cmd # NoCommand) =>
    /\ state.current_phase = prev.current_phase
    /\ state.gates = prev.gates
    /\ state.history = prev.history

\* A new feature cycle starts in the last step.
NewCycleStarted ==
  /\ cmd.name \in {"plan", "confirm"}
  /\ result.allowed
  /\ ~ prev.spike_mode

\* C6 (gate monotonicity): a gate that is passed stays passed, with the same
\* approver and timestamp, through every operation of the same feature cycle
\* (phase and TDD actions, gate requests, repeated approvals, spike entry and
\* exit, re-initialization).
GateMonotonicity ==
  \A g \in GateNames :
    (Passed(prev, g) /\ ~ NewCycleStarted) => state.gates[g] = prev.gates[g]

\* C6 witness: ship succeeds and both gates are still passed after it.
GateMonotonicityWitness ==
  /\ cmd.name = "ship"
  /\ result.allowed
  /\ Passed(prev, "plan_approved") /\ Passed(prev, "review_approved")
  /\ Passed(state, "plan_approved") /\ Passed(state, "review_approved")

IsPrefix(a, b) == Len(a) <= Len(b) /\ SubSeq(b, 1, Len(a)) = a

\* The last step appended exactly one record to the history.
AppendedOne == Len(state.history) = Len(prev.history) + 1

LastRecord == state.history[Len(state.history)]

\* C8 (append-only history): the history before a step is a prefix of the
\* history after it and timestamps grow along it; a phase transition, a gate
\* pass and a TDD sub-transition (this one with gate_checked null) each
\* append exactly one record; a blocked action appends none; scenario S4
\* (plan after cd-init) moves to plan and records the transition.
HistoryAppendOnly ==
  /\ IsPrefix(prev.history, state.history)
  /\ Len(state.history) <= Len(prev.history) + 1
  /\ \A i \in 1 .. Len(state.history) - 1 :
       state.history[i].timestamp < state.history[i + 1].timestamp
  /\ prev.current_phase # state.current_phase =>
       /\ AppendedOne
       /\ LastRecord.from_phase = prev.current_phase
       /\ LastRecord.to_phase = state.current_phase
  /\ \A g \in GateNames :
       (~ Passed(prev, g) /\ Passed(state, g)) =>
         /\ AppendedOne
         /\ LastRecord.gate_checked = g
  /\ (cmd.name \in {"red", "green", "refactor"} /\ result.allowed
        /\ prev.current_phase = "tdd" /\ ~ prev.spike_mode) =>
       /\ AppendedOne
       /\ LastRecord.command = cmd.name
       /\ LastRecord.gate_checked = "null"
  /\ WasBlocked => state.history = prev.history
  /\ Ran(S4) =>
       /\ result.allowed = ~ S4.expected_behavior.blocks
       /\ state.current_phase = S4.expected_behavior.updates_phase
       /\ state.current_phase = S4.state_validation.current_phase
       /\ S4.expected_behavior.records_history =>
            /\ AppendedOne
            /\ LastRecord.to_phase = S4.expected_behavior.updates_phase

\* C8 witness: a refactor appended the one record of its sub-transition.
HistoryAppendOnlyWitness ==
  /\ cmd.name = "refactor"
  /\ result.allowed
  /\ AppendedOne
  /\ LastRecord.command = "refactor"
  /\ LastRecord.gate_checked = "null"
  /\ Len(prev.history) >= 6

\* C9 (initialization): cd-init is allowed in every state and a document
\* exists after it; on an absent document it creates one with current_phase
\* idle, project.type the given type and project.initialized_at the time of
\* the call (scenario S2: cd-init backend).
InitializeAllowed ==
  /\ cmd.name = "cd-init" =>
       /\ result.allowed
       /\ state.exists
       /\ ~ prev.exists =>
            /\ state.current_phase = "idle"
            /\ state.project.type = cmd.arg
            /\ state.project.initialized_at = Len(prev.history) + 1
  /\ Ran(S2) =>
       /\ result.allowed = ~ S2.expected_behavior.blocks
       /\ state.exists = S2.expected_behavior.creates_state_file
       /\ state.current_phase = S2.expected_behavior.sets_phase
       /\ state.project.type = S2.expected_behavior.sets_project_type
       /\ state.current_phase = S2.state_validation.current_phase
       /\ state.project.type = S2.state_validation.project_type
       /\ S2.state_validation.project_initialized_at = "timestamp_exists" =>
            state.project.initialized_at > 0

\* C9 witness: cd-init fullstack on an absent document created it.
InitializeAllowedWitness ==
  /\ cmd = [name |-> "cd-init", arg |-> "fullstack"]
  /\ ~ prev.exists
  /\ state.exists
  /\ state.current_phase = "idle"
  /\ state.project.type = "fullstack"

\* C10 (idempotent initialization): once the document exists it keeps
\* existing and project (type and initialized_at) is the same after every
\* step, a cd-init with any project type included.
ProjectImmutable ==
  prev.exists => (state.exists /\ state.project = prev.project)

\* C10 witness: cd-init with another project type in phase tdd, allowed,
\* project as before.
ProjectImmutableWitness ==
  /\ cmd.name = "cd-init"
  /\ prev.exists
  /\ prev.current_phase = "tdd"
  /\ cmd.arg # prev.project.type
  /\ result.allowed
  /\ state.project = prev.project
  /\ clock > state.project.initialized_at

\* The elements of a sequence.
Range(seq) == {seq[i] : i \in 1..Len(seq)}

\* The commands of S12's input_sequence that make a transition: every one
\* but dsl, which finds the workflow in tdd already.
CycleTransitions ==
  SelectSeq([i \in 1..Len(S12.input_sequence) |-> Route(S12.input_sequence[i]).name],
            LAMBDA n : n # "dsl")

\* The run of S12 has issued its last input.
CycleDone == Len(script) = Len(S12.input_sequence)

\* C11 (full cycle): started with no state document, every input of S12's
\* sequence (cd-init, plan, approved, acceptance-test, dsl, red, green,
\* refactor, code-review, approved, commit, ship) is allowed when it is
\* issued; after the last one current_phase is ship (or idle), plan_approved
\* and review_approved are passed, and the history holds one record per
\* transition, in order: the commands of the sequence, each record starting
\* in the phase the one before it ended in, through all six phases.
FullCycle ==
  /\ \A i \in 1..Len(script) : script[i] = ~ S12.expected_behavior.blocks
  /\ CycleDone =>
       /\ state.current_phase \in Range(S12.state_validation.final_phase)
       /\ Passed(state, "plan_approved") = S12.state_validation.gates_plan_approved_passed
       /\ Passed(state, "review_approved") = S12.state_validation.gates_review_approved_passed
       /\ \A g \in Range(S12.expected_behavior.enforces_gates) : Passed(state, g)
       /\ [i \in 1..Len(state.history) |-> state.history[i].command] = CycleTransitions
       /\ state.history[1].from_phase = "null"
       /\ \A i \in 1..(Len(state.history) - 1) :
            /\ state.history[i + 1].from_phase = state.history[i].to_phase
            /\ state.history[i + 1].timestamp > state.history[i].timestamp
       /\ S12.expected_behavior.transitions_all_phases =>
            {state.history[i].to_phase : i \in 1..Len(state.history)} = Phases

\* C11 witness: the sequence has run to its end and the workflow shipped the
\* feature with eleven records in the ledger.
FullCycleWitness ==
  /\ CycleDone
  /\ cmd.name = "ship"
  /\ result.allowed
  /\ state.current_phase = "ship"
  /\ Passed(state, "plan_approved") /\ Passed(state, "review_approved")
  /\ Len(state.history) = Len(CycleTransitions)

\* A feature is in progress: current_feature set, phase neither idle nor ship.
FeatureInProgress(s) ==
  /\ s.exists
  /\ s.current_feature # "none"
  /\ s.current_phase \notin {"idle", "ship"}

SuggestionAllowed(s, name) ==
  \E a \in {"none"} \cup ProjectTypes \cup Features :
    Handle(s, [name |-> name, arg |-> a], "none", clock).result.allowed

\* C13 (recoverability): every blocked result carries a suggested_next
\* command, and that command, issued in the unchanged state, is itself
\* allowed.
Recoverable ==
  WasBlocked =>
    /\ result.suggested_next \in CommandNames
    /\ SuggestionAllowed(state, result.suggested_next)

\* 1 for a check that passed, 0 for one that did not.
Bit(check) == IF check THEN 1 ELSE 0

\* C14 (score range): whatever the five checks of GateEnforcementMetric give
\* (emoji e, blocking language l, did not proceed d, explanation x,
\* suggestion s), the score measure returns is
\* (0.3e + 0.2l + 0.2d)/0.7 + (0.15x + 0.15s)/0.3 and lies between 0 and 1.
GateScoreInUnitInterval ==
  measured.metric = "Gate Enforcement" =>
    LET c == measured.checks IN
      /\ 70 * 30 * measured.score =
           ScoreScale * (30 * (30 * Bit(c.has_block_emoji)
                               + 20 * Bit(c.has_blocking_language)
                               + 20 * Bit(c.did_not_proceed))
                         + 70 * (15 * Bit(c.has_explanation)
                                 + 15 * Bit(c.has_suggestion)))
      /\ 0 <= measured.score
      /\ measured.score <= ScoreScale

\* C15 (S2 state validation): with expected_state the state_validation of S2
\* and threshold 0.95, an output that mentions "idle" and "backend" scores
\* 1.0 and succeeds.
StateValidationSucceeds ==
  (/\ measured.metric = "State File Correctness"
   /\ Contains(Lower(output), S2.state_validation.current_phase)
   /\ Contains(Lower(output), S2.state_validation.project_type)) =>
    (measured.score = ScoreScale /\ measured.success)

\* C16 (restoration): when a call of execute with a context and
\* simulate_state = True is over, by return, failure text or exception, and
\* whatever the agent did to the state file, the file exists if and only if
\* it existed when the call began, with the content it had then; this for
\* contexts with state_file_exists true and false.
StateFileRestored ==
  \A p \in Calls :
    (At(p, "done") /\ call[p].simulate_state) =>
      /\ Exists(state_file) = Exists(call[p].entry)
      /\ state_file = call[p].entry

\* C16 witness: the developer's own file was replaced by the simulated one,
\* the agent deleted that, the run raised, and the own file is back.
StateFileRestoredWitness ==
  \E p \in Calls :
    /\ At(p, "done")
    /\ call[p].simulate_state
    /\ call[p].context.state_file_exists
    /\ call[p].outcome = "raised"
    /\ call[p].agent_did = "deleted"
    /\ call[p].entry = FileOf(OwnDocument)
    /\ state_file = FileOf(OwnDocument)

\* C20 (simulated state): for a context with a state file, the document
\* execute writes before it runs the agent carries the context's
\* current_phase and current_feature, and its gates and tdd_state when the
\* context has them (S8, S10).
ContextCarried ==
  \A p \in Calls :
    (At(p, "run") /\ call[p].state_data # NoFile /\ call[p].agent_did = "nothing") =>
      LET context == call[p].context
          document == state_file[1]
      IN  /\ state_file = call[p].state_data
          /\ document.current_phase = context.current_phase
          /\ document.current_feature = Get(context, "current_feature", "None")
          /\ "gates" \in DOMAIN context =>
               ("gates" \in DOMAIN document /\ document.gates = context.gates)
          /\ "tdd_state" \in DOMAIN context =>
               ("tdd_state" \in DOMAIN document /\ document.tdd_state = context.tdd_state)

\* C17 (S6, approval of the plan gate): in phase plan with plan_approved
\* pending, the input "approved" is not blocked, passes plan_approved with
\* approver "human", and the phase is no longer plan once the approval has
\* been handled.
ApprovalTransitionsPhase ==
  Ran(S6) =>
    /\ result.allowed = ~ S6.expected_behavior.blocks
    /\ Passed(state, S6.expected_behavior.passes_gate) =
         S6.state_validation.gates_plan_approved_passed
    /\ state.gates["plan_approved"].approver = S6.state_validation.gates_plan_approved_approver
    /\ S6.expected_behavior.transitions_phase => state.current_phase # prev.current_phase

\* The fixed sequence, as steps from a phase to its immediate successor
\* (initialization gives the phase its first value, idle).
SuccessorSteps ==
  {<< "null", "idle" >>, << "idle", "plan" >>, << "plan", "tdd" >>, << "tdd", "review" >>,
   << "review", "commit" >>, << "commit", "ship" >>, << "ship", "idle" >>}

PhaseChanged == state.current_phase # prev.current_phase

\* The explicit restart into plan for a new feature.
Restart == state.current_phase = "plan" /\ cmd.name \in {"plan", "confirm"}

\* C18 as stated: every change of current_phase is a step to the immediate
\* successor or the restart into plan, and spike leaves the phase alone.
PhaseStepsAlways ==
  /\ PhaseChanged =>
       (<< prev.current_phase, state.current_phase >> \in SuccessorSteps \/ Restart)
  /\ cmd.name = "spike" => ~ PhaseChanged

\* C18 (phase monotonicity), amended: every change of current_phase is a
\* step to the immediate successor in idle, plan, tdd, review, commit, ship,
\* or the restart into plan, or a ship taken in phase tdd or review with
\* review_approved passed, which skips the phases in between; spike entry
\* and exit leave the phase alone.
PhaseSteps ==
  /\ PhaseChanged =>
       \/ << prev.current_phase, state.current_phase >> \in SuccessorSteps
       \/ Restart
       \/ /\ prev.current_phase \in {"tdd", "review"}
          /\ state.current_phase = "ship"
          /\ cmd.name = "ship"
          /\ Passed(prev, "review_approved")
  /\ cmd.name = "spike" => ~ PhaseChanged

\* C18 witness: the step from commit to ship at the end of a run whose
\* history went through all six phases.
PhaseStepsWitness ==
  /\ PhaseChanged
  /\ prev.current_phase = "commit"
  /\ state.current_phase = "ship"
  /\ {state.history[i].to_phase : i \in 1..Len(state.history)} = Phases

\* initialize has succeeded at some time: the ledger has its record.
InitializeSucceeded ==
  \E i \in 1..Len(state.history) :
    state.history[i].command = "cd-init" /\ state.history[i].to_phase = "idle"

\* C19 (phase null): current_phase is null exactly when initialize has never
\* succeeded, which is exactly when no state document exists; a spike on the
\* absent document (S7) is allowed, sets spike_mode and leaves current_phase
\* null and the document absent.
PhaseNullIffAbsent ==
  /\ (state.current_phase = "null") = ~ InitializeSucceeded
  /\ (state.current_phase = "null") = ~ state.exists
  /\ Ran(S7) =>
       /\ result.allowed = ~ S7.expected_behavior.blocks
       /\ state.spike_mode = S7.expected_behavior.activates_spike_mode
       /\ state.current_phase = "null"
       /\ ~ state.exists

\* C19 witness: spike mode entered with no state document.
PhaseNullIffAbsentWitness ==
  /\ Ran(S7)
  /\ result.allowed
  /\ state.spike_mode
  /\ state.current_phase = "null"
  /\ ~ state.exists
  /\ ~ InitializeSucceeded

\* The errors of a gate check or a phase-order check.
GateOrOrderErrors ==
  {"GateNotPassedError", "NoFailingTestError", "MissingPrerequisiteError",
   "InvalidTransitionError"}

\* How a command would be gated in state s outside spike mode.
Gating(s, name) ==
  LET r == Handle([s EXCEPT !.spike_mode = FALSE], [name |-> name, arg |-> "none"],
                  "none", clock).result
  IN  << r.allowed, r.blocked_reason, r.gate >>

\* C21 (spike bypass): spike is allowed in every phase and with no state
\* document and toggles spike_mode; no command issued while spike_mode is
\* true is blocked with GateNotPassedError, NoFailingTestError,
\* MissingPrerequisiteError or InvalidTransitionError; and no step taken in
\* spike mode, the exit included, changes how any command is gated outside
\* spike mode, so that after the exit every action is gated as before the
\* entry.
SpikeBypass ==
  /\ cmd.name = "spike" => (result.allowed /\ state.spike_mode = ~ prev.spike_mode)
  /\ (prev.spike_mode /\ cmd # NoCommand) => result.blocked_reason \notin GateOrOrderErrors
  /\ prev.spike_mode =>
       \A name \in CommandNames : Gating(state, name) = Gating(prev, name)

\* A scenario involves gate enforcement: its context names gates or a
\* pending gate, or it has a gate-related expectation.
InvolvesGates(s) ==
  \/ "gates" \in DOMAIN s.context
  \/ "pending_gate" \in DOMAIN s.context
  \/ DOMAIN s.expected_behavior
       \cap {"mentions_gate", "passes_gate", "bypasses_gates", "enforces_gates"} # {}

\* C22 (gate scenarios): get_gate_scenarios returns every scenario of the
\* list that involves gate enforcement, and of the whole GOLDEN_DATASET
\* exactly S5, S6, S7, S8, S11 and S12.
GateScenariosComplete ==
  selected.by = "get_gate_scenarios" =>
    /\ Range(selected.ids) = {id \in dataset : InvolvesGates(get_scenario(id))}
    /\ dataset = ScenarioIds => Range(selected.ids) = {"S5", "S6", "S7", "S8", "S11", "S12"}

\* C23 (overlapping calls): when the calls of execute on the shared client,
\* overlapping or not, have all finished, the state file exists if and only
\* if it existed before the first of them started, with the content it had
\* then.
RestoredAfterOverlap ==
  (\A p \in Calls : At(p, "done") /\ call[p].simulate_state) =>
    \A p \in Calls :
      call[p].alone =>
        /\ Exists(state_file) = Exists(call[p].entry)
        /\ state_file = call[p].entry

====
